---- MODULE Spec2Model ----
(***************************************************************************)
(* DatavizFT: collection and reconciliation pipeline.                      *)
(*                                                                         *)
(* Spec     : PipelineOrchestrator.execute_complete_pipeline driving the   *)
(*            FranceTravailCollector (backend/), the competence analysis   *)
(*            and the statistics stage, each gated by its own 24h check,   *)
(*            plus the command-line entry main() of backend/main.py, over  *)
(*            an upstream listing that changes freely.                     *)
(* SpecFull : the same pipeline restricted to complete collections (no     *)
(*            max_jobs limit, no failing page).                            *)
(* SpecTime : the same pipeline while the hours pass, with complete        *)
(*            fetches of a growing upstream listing; closing the database  *)
(*            connection may fail.                                         *)
(* SpecV2   : CollectJobsService.collect_jobs (backend_v2/) over the       *)
(*            JobRepositoryMongoDB store.                                  *)
(* SpecClient : FranceTravailAPIClient.collecter_offres_paginees, request  *)
(*            by request: token, total, then one step per page.            *)
(* SpecExtract : the skill referentiel, the collector's filter and         *)
(*            CompetenceProcessor.analyze_jobs_competences, by offer.      *)
(*                                                                         *)
(* Time is counted in hours.  Job ids are 1..MaxId; the upstream API lists *)
(* the available offers in ascending id order.                             *)
(***************************************************************************)
EXTENDS Integers, FiniteSets, Sequences, TLC

\* ---------------------------------------------------------------- bounds
MaxId == 2
MaxTime == 25
PageSize == 1
MaxRows == 2

\* ------------------------------------------------------ program constants
HoursLimit == 24
ApiPageLimit == 150

Ids == 1..MaxId
Time == 0..MaxTime
NoDate == -1
NoLimit == -1
TickSteps == {12, 13}
Stages == {"collection", "analysis", "statistics"}

Min(a, b) == IF a <= b THEN a ELSE b

\* ============================================================ upstream API
\* api[i] : "none"    the offer is not listed upstream
\*          "skilled" listed, its title+description match a skill pattern
\*          "plain"   listed, no skill pattern matches its text
ApiKinds == {"none", "skilled", "plain"}

Available(a) == {i \in Ids : a[i] # "none"}

\* 0-based position of offer i in the upstream listing
Rank(a, i) == Cardinality({j \in Available(a) : j < i})

\* total_a_collecter = min(total_disponible, max_offres or total_disponible)
\* (max_offres None and max_offres 0 are both falsy)
TotalACollecter(total, max_offres) ==
    Min(total, IF max_offres = NoLimit \/ max_offres = 0 THEN total
               ELSE max_offres)

\* page_size = min(page_size, 150)
EffectivePageSize(page_size) == Min(page_size, ApiPageLimit)

\* nb_pages = (total_a_collecter + page_size - 1) // page_size
NbPages(tac, ps) == (tac + ps - 1) \div ps

\* range "start-end" requested for page p (0-based)
PageStart(p, ps) == p * ps
PageEnd(p, ps, tac) == Min(p * ps + ps - 1, tac - 1)

\* offers returned by a successful request of page p
PageIds(a, p, ps, tac) ==
    {i \in Available(a) : Rank(a, i) >= PageStart(p, ps)
                          /\ Rank(a, i) <= PageEnd(p, ps, tac)}

\* collecter_offres_paginees: the pages answered with a non-success status
\* (failedPages) contribute nothing and the loop goes on with the next page
CollecterOffresPaginees(a, page_size, max_offres, failedPages) ==
    LET tac == TotalACollecter(Cardinality(Available(a)), max_offres)
        ps  == EffectivePageSize(page_size)
        np  == NbPages(tac, ps)
    IN  UNION {PageIds(a, p, ps, tac) : p \in (0..(np - 1)) \ failedPages}

PagesOf(a, page_size, max_offres) ==
    LET tac == TotalACollecter(Cardinality(Available(a)), max_offres)
        ps  == EffectivePageSize(page_size)
    IN  0..(NbPages(tac, ps) - 1)

\* collect_raw_jobs: any exception of the client (authentication, transport,
\* total-count probe) is swallowed into an empty list
CollectRawJobs(a, max_jobs, failedPages, apiError) ==
    IF apiError THEN {}
    ELSE CollecterOffresPaginees(a, PageSize, max_jobs, failedPages)

\* ------------------------------------ FranceTravailAPIClient, step by step
\* token   : "none" (no token cached) | "valid" | "expired" (cached, but the
\*           API answers 401 to it)
\* phase   : "idle" | "paging" (inside collecter_offres_paginees, a page
\*           request comes next) | "returned" | "raised"
\* max     : max_offres of the call (NoLimit for None)
\* tac     : total_a_collecter
\* page    : number of page requests made
\* acc     : toutes_offres
\* probe   : answer to the range 0-0 request of obtenir_total_offres
\* answers : answer to the request of each page ("none": not requested)
\* auths   : token requests made during the call
\* sleeps  : time.sleep(rate_limit_ms / 1000) calls made during the call
\* cause   : what raised ("auth" | "total" | "transport")
PageIndex == 0..(MaxId - 1)

NoClient == [phase |-> "idle", token |-> "none", max |-> NoLimit, tac |-> 0,
             page |-> 0, acc |-> {}, probe |-> "none",
             answers |-> [p \in PageIndex |-> "none"],
             auths |-> 0, sleeps |-> 0, cause |-> "none"]

\* _get_token: the cached token is returned as it is; otherwise one request
\* to the token endpoint, whose failure (credentials missing, 400, any other
\* status or exception) raises ValueError
GetToken(token, authOk) ==
    IF token # "none"
    THEN [raised |-> FALSE, token |-> token, requested |-> FALSE]
    ELSE IF authOk
         THEN [raised |-> FALSE, token |-> "valid", requested |-> TRUE]
         ELSE [raised |-> TRUE, token |-> "none", requested |-> TRUE]

\* what httpx.get yields for a request carrying the token: outcome is
\* "transport" (httpx raises), "ok" (200/206) or "error" (another status); a
\* request that reaches the API with an expired token is answered 401
Answer(token, outcome) ==
    IF outcome # "transport" /\ token = "expired" THEN "unauthorized"
    ELSE outcome

\* obtenir_total_offres and the set-up of collecter_offres_paginees
BeginCall(c, a, ps, max_offres, authOk, outcome) ==
    LET t      == GetToken(c.token, authOk)
        answer == Answer(t.token, outcome)
        tac    == TotalACollecter(Cardinality(Available(a)), max_offres)
        fresh  == [NoClient EXCEPT !.token = t.token, !.max = max_offres,
                                   !.auths = IF t.requested THEN 1 ELSE 0]
    IN  IF t.raised
        THEN [fresh EXCEPT !.phase = "raised", !.cause = "auth"]
        ELSE IF answer = "transport"
        THEN [fresh EXCEPT !.phase = "raised", !.cause = "transport",
                           !.probe = answer]
        ELSE IF answer # "ok"
        THEN [fresh EXCEPT !.phase = "raised", !.cause = "total",
                           !.probe = answer]
        ELSE [fresh EXCEPT !.probe = answer, !.tac = tac,
                           !.phase = IF NbPages(tac, ps) = 0 THEN "returned"
                                     ELSE "paging"]

\* a loop that sleeps only after a page answered with success
SleepsOnSuccessOnly(answer, limitReached) == answer = "ok" /\ ~ limitReached

\* whether an iteration reaches time.sleep at line 202: not when httpx.get
\* raised, not when the break of line 196 was taken
Sleeps(answer, limitReached) ==
    answer # "transport" /\ ~ (answer = "ok" /\ limitReached)

\* a loop that gives up at the first page answered with an error status
PageStepStopOnError(c, a, ps, outcome) ==
    LET p      == c.page
        answer == Answer(c.token, outcome)
        c1     == [c EXCEPT !.answers[p] = answer, !.page = p + 1]
        acc    == c.acc \cup PageIds(a, p, ps, c.tac)
    IN  IF answer = "transport"
        THEN [c1 EXCEPT !.phase = "raised", !.cause = "transport"]
        ELSE IF answer = "ok"
        THEN [c1 EXCEPT !.acc = acc,
                        !.sleeps = IF Sleeps(answer, Cardinality(acc) >= c.tac)
                                   THEN @ + 1 ELSE @,
                        !.phase = IF Cardinality(acc) >= c.tac
                                     \/ p + 1 = NbPages(c.tac, ps)
                                  THEN "returned" ELSE "paging"]
        ELSE [c1 EXCEPT !.sleeps = IF Sleeps(answer, FALSE) THEN @ + 1 ELSE @,
                        !.phase = "returned"]

\* one iteration of the page loop of collecter_offres_paginees
PageStep(c, a, ps, outcome) ==
    LET p      == c.page
        answer == Answer(c.token, outcome)
        c1     == [c EXCEPT !.answers[p] = answer, !.page = p + 1]
        acc    == c.acc \cup PageIds(a, p, ps, c.tac)
    IN  IF answer = "transport"
        THEN [c1 EXCEPT !.phase = "raised", !.cause = "transport"]
        ELSE IF answer = "ok"
        THEN [c1 EXCEPT !.acc = acc,
                        !.sleeps = IF Sleeps(answer, Cardinality(acc) >= c.tac)
                                   THEN @ + 1 ELSE @,
                        !.phase = IF Cardinality(acc) >= c.tac
                                     \/ p + 1 = NbPages(c.tac, ps)
                                  THEN "returned" ELSE "paging"]
        ELSE [c1 EXCEPT !.sleeps = IF Sleeps(answer, FALSE) THEN @ + 1 ELSE @,
                        !.phase = IF p + 1 = NbPages(c.tac, ps)
                                  THEN "returned" ELSE "paging"]

\* what collect_raw_jobs hands to the collector once the client call is over
RawJobs(c) == IF c.phase = "raised" THEN {} ELSE c.acc

\* the offers of the pages that were answered with success
SucceededPages(c, a, ps) ==
    UNION {PageIds(a, p, ps, c.tac) : p \in {q \in PageIndex : c.answers[q] = "ok"}}

\* ================================================ offres store (backend/)
\* The collection holds, for every source_id, a number of rows without
\* date_cloture (act) and a number of rows with a date_cloture (clo).
Rows == [act : 0..MaxRows, clo : 0..MaxRows]
NoRow == [act |-> 0, clo |-> 0]
NbRows(o, i) == o[i].act + o[i].clo
Stored(o) == {i \in Ids : NbRows(o, i) > 0}

\* OffresRepository.get_existing_source_ids(ids)
GetExistingSourceIds(o, ids) == {i \in ids : NbRows(o, i) > 0}

\* OffresRepository.get_active_offers_by_source(source)
GetActiveOffersBySource(o) == {i \in Ids : o[i].act > 0}

\* OffresRepository.close_offers(ids): sets date_cloture on the given offers
CloseOffers(o, ids) ==
    [i \in Ids |-> IF i \in ids
                   THEN [act |-> 0, clo |-> o[i].clo + o[i].act]
                   ELSE o[i]]

\* OffresRepository.insert_many_offres: one query for the source_ids already
\* stored, then insert_many of the others
OffresNouvelles(o, ids) == {i \in ids : NbRows(o, i) = 0}

InsertManyOffres(o, ids) ==
    [i \in Ids |-> IF i \in OffresNouvelles(o, ids)
                   THEN [act |-> o[i].act + 1, clo |-> o[i].clo]
                   ELSE o[i]]

\* close every active offer, fetched or not
SourceIdsACloturerAll(actifs, apiIds) == actifs

\* source_ids_a_cloturer = source_ids_actifs - source_ids_api
SourceIdsACloturer(actifs, apiIds) == actifs \ apiIds

\* step 5 of collect_and_save_jobs_optimized: classification of the raw jobs
Doublons(existants, raw) == raw \cap existants
Filtrees(a, existants, raw) == {i \in raw \ existants : a[i] = "plain"}

\* the skill filter forgotten: every unknown fetched offer is kept
NouvellesOffresUnfiltered(a, existants, raw) == raw \ existants

NouvellesOffres(a, existants, raw) == {i \in raw \ existants : a[i] = "skilled"}

\* collect_and_save_jobs_optimized(max_jobs) as a function of the store o and
\* of what the environment does during the call:
\*   failedPages  pages answered with a non-success status
\*   fault        "none" | "api" (the client raises) | "store" (a repository
\*                read or close_offers raises) | "insert" (insert_many raises)
CollectAndSaveJobsOptimized(a, o, max_jobs, failedPages, fault) ==
    LET raw       == CollectRawJobs(a, max_jobs, failedPages, fault = "api")
        existants == GetExistingSourceIds(o, raw)
        actifs    == GetActiveOffersBySource(o)
        aCloturer == SourceIdsACloturer(actifs, raw)
        oClosed   == CloseOffers(o, aCloturer)
        nouvelles == NouvellesOffres(a, existants, raw)
        inserted  == IF fault = "insert" THEN {}
                     ELSE OffresNouvelles(oClosed, nouvelles)
        base      == [success |-> TRUE, offres |-> o, fetched |-> raw,
                      actifs |-> actifs, closed |-> {}, created |-> {},
                      doublons |-> {}, filtrees |-> {}]
    IN  IF raw = {} THEN base
        ELSE IF fault = "store"
        THEN [base EXCEPT !.success = FALSE]
        ELSE [base EXCEPT
                !.offres   = InsertManyOffres(oClosed, inserted),
                !.closed   = aCloturer,
                !.created  = inserted,
                !.doublons = Doublons(existants, raw),
                !.filtrees = Filtrees(a, existants, raw)]

\* ============================================= jobs store (backend_v2/)
\* NoneId stands for a stored document whose source_id is None
NoneId == 0
JobIds == Ids \cup {NoneId}
NoJobs == [i \in JobIds |-> NoRow]

\* JobRepositoryMongoDB.get_all_active_source_id: is_active True or absent
GetAllActiveSourceId(j) == {i \in JobIds : j[i].act > 0}

\* JobRepositoryMongoDB.deactivate_jobs_by_source_ids: update_many sets
\* is_active False on every document whose source_id is in the list
DeactivateJobsBySourceIds(j, ids) ==
    [i \in JobIds |-> IF i \in ids
                      THEN [act |-> 0, clo |-> j[i].clo + j[i].act]
                      ELSE j[i]]

\* CollectJobsService._deactivate_missing_jobs
ToDeactivate(existing, apiIds) ==
    {sid \in existing : sid \notin apiIds /\ sid # NoneId}

\* CollectJobsService._filter_existing_jobs
FilterExistingJobs(fetched, existing) == {i \in fetched : i \notin existing}

\* JobRepositoryMongoDB.save_jobs: insert_many(ordered=False) with is_active
\* True.  Under a unique index on source_id the documents whose source_id is
\* already stored are rejected (the others are written) and the call raises.
SaveRejected(j, ids, unique) == IF unique THEN {i \in ids : j[i].act + j[i].clo > 0}
                                ELSE {}

SaveJobs(j, ids, unique) ==
    [i \in JobIds |-> IF i \in ids \ SaveRejected(j, ids, unique)
                      THEN [act |-> j[i].act + 1, clo |-> j[i].clo]
                      ELSE j[i]]

\* collect_jobs(params, page_size, max_offres) as a function of the store j:
\*   fault  "none" | "api" (the client raises) | "read" (reading the active
\*          ids raises) | "save" (insert_many raises before writing)
CollectJobs(a, j, max_offres, failedPages, fault, unique) ==
    LET fetched  == CollecterOffresPaginees(a, PageSize, max_offres, failedPages)
        existing == GetAllActiveSourceId(j)
        toDeact  == ToDeactivate(existing, fetched)
        jDeact   == DeactivateJobsBySourceIds(j, toDeact)
        toSave   == FilterExistingJobs(fetched, existing)
        rejected == SaveRejected(jDeact, toSave, unique)
    IN  IF fault \in {"api", "read"}
        THEN [raised |-> TRUE, jobs |-> j, fetched |-> {}, existing |-> {},
              deactivated |-> {}, saved |-> {}]
        ELSE IF fault = "save" /\ toSave # {}
        THEN [raised |-> TRUE, jobs |-> jDeact, fetched |-> fetched,
              existing |-> existing, deactivated |-> toDeact, saved |-> {}]
        ELSE [raised |-> rejected # {},
              jobs |-> SaveJobs(jDeact, toSave, unique), fetched |-> fetched,
              existing |-> existing, deactivated |-> toDeact,
              saved |-> toSave \ rejected]

\* ============================================================== staleness
\* the age of the marker ignored: a stage runs only while it has no marker
ShouldExecuteOnce(last, t) == last = NoDate

\* delta <= timedelta(hours=hours_limit) -> should_execute False
ShouldExecute(last, t) ==
    IF last = NoDate THEN TRUE
    ELSE ~ (t - last <= HoursLimit)

\* the three checks; err: reading the store raises, which each check turns
\* into should_execute True
\* a check that reports "not due" when reading the last execution fails
CheckShouldCollectSkipsOnError(dc, t, err) ==
    IF err THEN FALSE ELSE ShouldExecute(dc, t)

CheckShouldCollect(dc, t, err) == IF err THEN TRUE ELSE ShouldExecute(dc, t)

CheckShouldAnalyze(m, t, err) == IF err THEN TRUE ELSE ShouldExecute(m, t)

CheckShouldGenerateStats(m, t, err) == IF err THEN TRUE ELSE ShouldExecute(m, t)

\* should_x = x_check["should_execute"] or force_x
ShouldRunCheckOnly(check, force) == check

ShouldRun(check, force) == check \/ force

\* 2. ANALYSE
\* offers selected by analyze_jobs_competences(analyze_all=True): every offer
\* of the source when force_reanalyze, else the offers not yet treated (the
\* collector stores its offers with traite=True and their competences)
OffresAAnalyser(o, force_reanalyze) ==
    IF force_reanalyze THEN Stored(o) ELSE {}

\* analyze_jobs_competences: fault "none" | "store" (an exception inside the
\* try block) | "marker" (_enregistrer_execution_analyse fails, swallowed)
AnalyzeJobsCompetences(o, m, t, force_reanalyze, fault) ==
    IF fault = "store" THEN [success |-> FALSE, marker |-> m]
    ELSE IF OffresAAnalyser(o, force_reanalyze) = {}
    THEN [success |-> TRUE, marker |-> m]
    ELSE [success |-> TRUE, marker |-> IF fault = "marker" THEN m ELSE t]

\* the execution recorded before the statistics are computed and saved
GenerateCompleteStatisticsMarkerFirst(o, m, t, fault) ==
    IF fault = "store" THEN [success |-> FALSE, marker |-> t]
    ELSE IF Stored(o) = {}
    THEN [success |-> TRUE, marker |-> m]
    ELSE [success |-> TRUE, marker |-> IF fault = "save" THEN m ELSE t]

\* 3. STATISTIQUES
\* generate_complete_statistics: fault "none" | "store" (an exception inside
\* the try block) | "save" (_save_statistics fails, swallowed)
GenerateCompleteStatistics(o, m, t, fault) ==
    IF fault = "store" THEN [success |-> FALSE, marker |-> m]
    ELSE IF Stored(o) = {}
    THEN [success |-> TRUE, marker |-> m]
    ELSE [success |-> TRUE, marker |-> IF fault = "save" THEN m ELSE t]

\* ========================= skill matching and CompetenceProcessor, by record
\* The referentiel holds one label.  A text is "plain" (the label is not
\* mentioned), "ascii" (it reads "React Native" with an ASCII space), "nbsp"
\* (it reads "React", U+00A0, "Native") or "tm" (it reads "React Native"
\* followed by U+2122); "glued" is the cleaned form of "tm", where NFKC has
\* turned the sign into the letters TM ("react nativetm").
Competences == {"react native"}
Forms == {"plain", "ascii", "nbsp", "tm"}

\* charger_competences_referentiel: the labels of competences.json, and an
\* empty referentiel when the file is missing or is not valid JSON
ChargerCompetencesReferentiel(outcome) ==
    IF outcome = "ok" THEN Competences ELSE {}

\* nettoyer_texte -> normaliser_unicode: U+00A0 becomes an ASCII space and
\* NFKC replaces compatibility characters
NettoyerTexte(form) ==
    IF form = "nbsp" THEN "ascii"
    ELSE IF form = "tm" THEN "glued"
    ELSE form

\* rechercher_competence_dans_texte: the patterns of creer_patterns_recherche
\* (a literal space between the two words, a word boundary at both ends)
\* searched in texte.lower()
RechercherCompetenceDansTexte(form, c) == form \in {"ascii", "tm"}

\* CompetenceAnalyzer.analyser_texte (collection): the text as received
AnalyserTexte(form, ref) ==
    {c \in ref : RechercherCompetenceDansTexte(form, c)}

\* CompetenceAnalyzer.analyser_offres (batch analysis), for one offer:
\* extraire_texte_offre cleans the text before the search
AnalyserOffre(form, ref) ==
    {c \in ref : RechercherCompetenceDansTexte(NettoyerTexte(form), c)}

\* rec[i].state : "absent" | "filtered" (dropped by the collector, no skill)
\*                | "stored"
\* det[i]       : rows of competences_detections for (offre i, the label)
\* last         : the last analyze_jobs_competences call
\* loaded, ref  : COMPETENCES_REFERENTIEL once backend.data.competences is
\*                imported
NoRec == [state |-> "absent", form |-> "plain", traite |-> FALSE, tags |-> {}]

NoExt == [loaded |-> FALSE, ref |-> {},
          rec |-> [i \in Ids |-> NoRec], det |-> [i \in Ids |-> 0],
          last |-> [status |-> "none", selected |-> {}, forced |-> FALSE]]

\* the query of analyze_jobs_competences(analyze_all=True)
OffresSelectionnees(rec, force_reanalyze) ==
    {i \in Ids : /\ rec[i].state = "stored"
                 /\ \/ force_reanalyze
                    \/ ~ rec[i].traite
                    \/ rec[i].tags = {}}

\* _construire_mapping_competences_offres: only offers with a detected
\* competence get an entry
ConstruireMappingCompetencesOffres(rec, selected, ref) ==
    {i \in selected : AnalyserOffre(rec[i].form, ref) # {}}

\* _sauvegarder_competences_detectees: insert_many, one row per pair
SauvegarderCompetencesDetectees(det, mapping) ==
    [i \in Ids |-> IF i \in mapping THEN det[i] + 1 ELSE det[i]]

\* _mettre_a_jour_offres_avec_competences: update_one for each entry of the
\* mapping
MettreAJourOffresAvecCompetences(rec, mapping, ref) ==
    [i \in Ids |-> IF i \in mapping
                   THEN [rec[i] EXCEPT !.traite = TRUE,
                                       !.tags = AnalyserOffre(rec[i].form, ref)]
                   ELSE rec[i]]

\* analyze_jobs_competences: fault "none" | "detections" (insert_many of the
\* detections raises) | "update" (the first update_one raises, after the
\* detections were inserted)
AnalyserOffresParRecord(e, force_reanalyze, fault) ==
    LET selected == OffresSelectionnees(e.rec, force_reanalyze)
        mapping  == ConstruireMappingCompetencesOffres(e.rec, selected, e.ref)
        done(st) == [status |-> st, selected |-> selected,
                     forced |-> force_reanalyze]
    IN  IF selected = {} THEN [e EXCEPT !.last = done("ok")]
        ELSE IF fault = "detections" /\ mapping # {}
        THEN [e EXCEPT !.last = done("failed")]
        ELSE IF fault = "update" /\ mapping # {}
        THEN [e EXCEPT !.det = SauvegarderCompetencesDetectees(e.det, mapping),
                       !.last = done("failed")]
        ELSE [e EXCEPT !.det = SauvegarderCompetencesDetectees(e.det, mapping),
                       !.rec = MettreAJourOffresAvecCompetences(e.rec, mapping,
                                                                e.ref),
                       !.last = done("ok")]

\* =================================================================== state
VARIABLES
    now,            \* datetime.now(), in hours
    api,            \* upstream listing
    offres,         \* offres collection (backend/)
    dateCollecte,   \* newest date_collecte of the offres collection
    markerAnalyse,  \* pipeline_executions {type: analyse_competences}
    markerStats,    \* pipeline_executions {type: statistiques}
    pc,             \* position of the running invocation
    params,         \* arguments of the running invocation
    res,            \* per-stage outcome of the running / last invocation
    run,            \* what the collector did in the stage just executed
    jobs,           \* offres collection as JobRepositoryMongoDB sees it
    uniqueIndex,    \* whether the collection has a unique index on source_id
    call,           \* what the last collect_jobs call did
    client,         \* FranceTravailAPIClient and its current / last call
    ext,            \* offers, detections and last analysis, record by record
    db              \* the orchestrator's database connection

v2vars == <<jobs, uniqueIndex, call>>

vars == <<now, api, offres, dateCollecte, markerAnalyse, markerStats,
          pc, params, res, run, v2vars, client, ext, db>>

NoParams == [entry |-> "none", max_jobs |-> 0, force_collection |-> FALSE,
             force_analysis |-> FALSE, force_stats |-> FALSE]

\* status: "none" (stage not reached) | "skipped" | "ok" | "failed"
\* last  : the stage's marker when its check was made (NoDate when absent)
\* check : "ok" | "error" (the check could not read the marker)
NoStage == [status |-> "none", last |-> NoDate, check |-> "ok"]
NoRes == [s \in Stages |-> NoStage]

\* what the invocation keeps of a stage once the next stage has started: the
\* stage's result, not what its check read
Reported(e) ==
    IF e.status \in {"ok", "failed"}
    THEN [status |-> e.status, last |-> NoDate, check |-> "ok"]
    ELSE e

\* the arguments still to be read when the analysis / the statistics start
ParamsForAnalyse(p) == [p EXCEPT !.max_jobs = 0, !.force_collection = FALSE]
ParamsForStats(p) == [p EXCEPT !.force_analysis = FALSE]

NoRun == [executed |-> FALSE, fetched |-> {}, partial |-> FALSE,
          fault |-> "none", actifs |-> {}, existants |-> {}]

\* streak: complete, successful calls in a row since the upstream listing
\* last changed (counted up to 2)
NoCall == [executed |-> FALSE, raised |-> FALSE, fetched |-> {},
           existing |-> {}, deactivated |-> {}, saved |-> {}, before |-> NoJobs,
           fault |-> "none", restricted |-> FALSE, partial |-> FALSE,
           streak |-> 0]

Init ==
    /\ jobs = NoJobs
    /\ uniqueIndex = FALSE
    /\ call = NoCall
    /\ client = NoClient
    /\ ext = NoExt
    /\ db = "closed"
    /\ now = 0
    /\ api = [i \in Ids |-> "none"]
    /\ offres = [i \in Ids |-> NoRow]
    /\ dateCollecte = NoDate
    /\ markerAnalyse = NoDate
    /\ markerStats = NoDate
    /\ pc = "idle"
    /\ params = NoParams
    /\ res = NoRes
    /\ run = NoRun

\* "aborted": the invocation returned from its top-level except clause
Quiet == pc \in {"idle", "done", "aborted"}

\* ------------------------------------------------------------ environment
Tick ==
    /\ Quiet
    /\ \E d \in TickSteps :
         /\ now + d <= MaxTime
         /\ now' = now + d
    /\ pc' = "idle"
    /\ params' = NoParams
    /\ res' = NoRes
    /\ run' = NoRun
    /\ UNCHANGED <<v2vars, client, ext, db, api, offres, dateCollecte, markerAnalyse, markerStats>>

\* an offer is published, withdrawn or rewritten upstream
ApiChange ==
    /\ Quiet
    /\ client.phase # "paging"
    /\ \E i \in Ids, k \in ApiKinds :
         /\ api[i] # k
         /\ api' = [api EXCEPT ![i] = k]
    /\ pc' = "idle"
    /\ params' = NoParams
    /\ res' = NoRes
    /\ run' = NoRun
    /\ call' = NoCall
    /\ client' = [NoClient EXCEPT !.token = client.token]
    /\ UNCHANGED <<jobs, uniqueIndex, ext, db, now, offres, dateCollecte, markerAnalyse, markerStats>>

\* the next offer is published upstream (ids are handed out in order)
ApiPublish ==
    /\ Quiet
    /\ \E i \in Ids, k \in ApiKinds \ {"none"} :
         /\ api[i] = "none"
         /\ \A j \in Ids : j < i => api[j] # "none"
         /\ api' = [api EXCEPT ![i] = k]
    /\ pc' = "idle"
    /\ params' = NoParams
    /\ res' = NoRes
    /\ run' = NoRun
    /\ UNCHANGED <<v2vars, client, ext, db, now, offres, dateCollecte, markerAnalyse, markerStats>>

\* ------------------------------------------------ backend/main.py : main()
\* verifier_collecte_recente() first; when the collection is recent main()
\* returns without calling the pipeline at all.
MainSkipped ==
    /\ Quiet
    /\ ~ CheckShouldCollect(dateCollecte, now, FALSE)
    /\ pc' = "done"
    /\ params' = [NoParams EXCEPT !.entry = "main"]
    /\ res' = [NoRes EXCEPT !["collection"] =
                 [status |-> "skipped", last |-> dateCollecte, check |-> "ok"]]
    /\ run' = NoRun
    /\ UNCHANGED <<v2vars, client, ext, db, now, api, offres, dateCollecte, markerAnalyse, markerStats>>

\* otherwise main() calls executer_pipeline_complet(max_offres=None,
\* forcer_execution=False)
MainInvoke ==
    /\ Quiet
    /\ \E err \in BOOLEAN : CheckShouldCollect(dateCollecte, now, err)
    /\ pc' = "collect"
    /\ params' = [NoParams EXCEPT !.entry = "main"]
    /\ res' = NoRes
    /\ run' = NoRun
    /\ db' = "open"
    /\ UNCHANGED <<v2vars, client, ext, now, api, offres, dateCollecte, markerAnalyse, markerStats>>

\* close_database: DatabaseConnection.close() is awaited and an exception it
\* raises is logged and dropped
CloseDatabase(d, closeOk) == IF closeOk THEN "closed" ELSE "closeFailed"

\* a close_database that lets the exception of close() escape the finally
\* clause
PipelineReturnCloseRaises(result, closeOk) ==
    IF closeOk THEN result ELSE "crashed"

\* the finally clause of execute_complete_pipeline: the return value built in
\* the try or the except clause is what the caller gets
PipelineReturn(result, closeOk) == result

\* 1. COLLECTE left out: the invocation starts with the analysis
InvokeWithAnalysisFirst(limits) ==
    /\ Quiet
    /\ \E m \in limits, fc \in BOOLEAN, fa \in BOOLEAN, fs \in BOOLEAN :
         params' = [entry |-> "direct", max_jobs |-> m, force_collection |-> fc,
                    force_analysis |-> fa, force_stats |-> fs]
    /\ pc' = "analyse"
    /\ res' = NoRes
    /\ run' = NoRun
    /\ db' = "open"
    /\ UNCHANGED <<v2vars, client, ext, now, api, offres, dateCollecte, markerAnalyse, markerStats>>

\* ------------------------- PipelineOrchestrator.execute_complete_pipeline
\* called with arguments (main_force, main_avec_limite, main_force_analyses,
\* execute_full_pipeline); limits is the set of max_jobs values
InvokeWith(limits) ==
    /\ Quiet
    /\ \E m \in limits, fc \in BOOLEAN, fa \in BOOLEAN, fs \in BOOLEAN :
         params' = [entry |-> "direct", max_jobs |-> m, force_collection |-> fc,
                    force_analysis |-> fa, force_stats |-> fs]
    /\ pc' = "collect"
    /\ res' = NoRes
    /\ run' = NoRun
    /\ db' = "open"
    /\ UNCHANGED <<v2vars, client, ext, now, api, offres, dateCollecte, markerAnalyse, markerStats>>

Invoke == InvokeWith(0..MaxId)
InvokeFull == InvokeWith({0})

\* init_database() returns False (MongoDB unreachable): the exception raised
\* at line 317 is caught at line 426 and the invocation returns
\* {"success": False, "pipeline_name", "error", "timestamp"}
InvokeAbortedWith(closeOks) ==
    /\ Quiet
    /\ \E closeOk \in closeOks :
         /\ pc' = PipelineReturn("aborted", closeOk)
         /\ db' = CloseDatabase(db, closeOk)
    /\ params' = [NoParams EXCEPT !.entry = "direct"]
    /\ res' = NoRes
    /\ run' = NoRun
    /\ UNCHANGED <<v2vars, client, ext, now, api, offres, dateCollecte, markerAnalyse, markerStats>>

\* the closing of the connection succeeds / succeeds or fails
InvokeAborted == InvokeAbortedWith({TRUE})
InvokeAbortedClose == InvokeAbortedWith(BOOLEAN)

\* 1. COLLECTE
StageCollectSkip ==
    /\ pc = "collect"
    /\ \E err \in BOOLEAN :
         /\ ~ ShouldRun(CheckShouldCollect(dateCollecte, now, err),
                        params.force_collection)
         /\ res' = [res EXCEPT !["collection"] =
                      [status |-> "skipped", last |-> dateCollecte,
                       check |-> IF err THEN "error" ELSE "ok"]]
    /\ pc' = "analyse"
    /\ UNCHANGED <<v2vars, client, ext, db, now, api, offres, dateCollecte, markerAnalyse, markerStats,
                   params, run>>

\* pageFailures: whether page requests may be answered with an error status
StageCollectWith(pageFailures) ==
    /\ pc = "collect"
    /\ \E failedPages \in SUBSET PagesOf(api, PageSize, params.max_jobs),
          fault \in {"none", "api", "store", "insert"}, err \in BOOLEAN :
         /\ ShouldRun(CheckShouldCollect(dateCollecte, now, err), params.force_collection)
         /\ pageFailures \/ failedPages = {}
         /\ LET r == CollectAndSaveJobsOptimized(api, offres, params.max_jobs,
                                                 failedPages, fault)
            IN  /\ offres' = r.offres
                /\ dateCollecte' = IF r.created # {} THEN now ELSE dateCollecte
                /\ run' = [executed |-> TRUE, fetched |-> r.fetched,
                           partial |-> fault # "api" /\ failedPages # {},
                           fault |-> fault, actifs |-> r.actifs,
                           existants |-> Stored(offres)]
                /\ res' = [res EXCEPT !["collection"] =
                             [status |-> IF r.success THEN "ok" ELSE "failed",
                              last |-> dateCollecte,
                              check |-> IF err THEN "error" ELSE "ok"]]
    /\ pc' = "analyse"
    /\ UNCHANGED <<v2vars, client, ext, db, now, api, markerAnalyse, markerStats, params>>

StageCollectRun == StageCollectWith(TRUE)
StageCollectFull == StageCollectWith(FALSE)

\* 2. ANALYSE
StageAnalyseSkip ==
    /\ pc = "analyse"
    /\ \E err \in BOOLEAN :
         /\ ~ ShouldRun(CheckShouldAnalyze(markerAnalyse, now, err),
                        params.force_analysis)
         /\ res' = [res EXCEPT !["collection"] = Reported(@),
                               !["analysis"] =
                      [status |-> "skipped", last |-> markerAnalyse,
                       check |-> IF err THEN "error" ELSE "ok"]]
    /\ pc' = "stats"
    /\ params' = ParamsForAnalyse(params)
    /\ run' = NoRun
    /\ UNCHANGED <<v2vars, client, ext, db, now, api, offres, dateCollecte, markerAnalyse, markerStats>>

StageAnalyseRun ==
    /\ pc = "analyse"
    /\ \E fault \in {"none", "store", "marker"}, err \in BOOLEAN :
         /\ ShouldRun(CheckShouldAnalyze(markerAnalyse, now, err), params.force_analysis)
         /\ LET r == AnalyzeJobsCompetences(offres, markerAnalyse, now,
                                            params.force_analysis, fault)
            IN  /\ markerAnalyse' = r.marker
                /\ res' = [res EXCEPT !["collection"] = Reported(@),
                                      !["analysis"] =
                             [status |-> IF r.success THEN "ok" ELSE "failed",
                              last |-> markerAnalyse,
                              check |-> IF err THEN "error" ELSE "ok"]]
    /\ pc' = "stats"
    /\ params' = ParamsForAnalyse(params)
    /\ run' = NoRun
    /\ UNCHANGED <<v2vars, client, ext, db, now, api, offres, dateCollecte, markerStats>>

\* 3. STATISTIQUES, then the final results
StageStatsSkipWith(closeOks) ==
    /\ pc = "stats"
    /\ \E err \in BOOLEAN :
         /\ ~ ShouldRun(CheckShouldGenerateStats(markerStats, now, err),
                        params.force_stats)
         /\ res' = [res EXCEPT !["analysis"] = Reported(@),
                               !["statistics"] =
                      [status |-> "skipped", last |-> markerStats,
                       check |-> IF err THEN "error" ELSE "ok"]]
    /\ \E closeOk \in closeOks :
         /\ pc' = PipelineReturn("done", closeOk)
         /\ db' = CloseDatabase(db, closeOk)
    /\ params' = ParamsForStats(params)
    /\ UNCHANGED <<v2vars, client, ext, now, api, offres, dateCollecte, markerAnalyse, markerStats,
                   run>>

StageStatsRunWith(closeOks) ==
    /\ pc = "stats"
    /\ \E fault \in {"none", "store", "save"}, err \in BOOLEAN :
         /\ ShouldRun(CheckShouldGenerateStats(markerStats, now, err), params.force_stats)
         /\ LET r == GenerateCompleteStatistics(offres, markerStats, now, fault)
            IN  /\ markerStats' = r.marker
                /\ res' = [res EXCEPT !["analysis"] = Reported(@),
                                      !["statistics"] =
                             [status |-> IF r.success THEN "ok" ELSE "failed",
                              last |-> markerStats,
                              check |-> IF err THEN "error" ELSE "ok"]]
    /\ \E closeOk \in closeOks :
         /\ pc' = PipelineReturn("done", closeOk)
         /\ db' = CloseDatabase(db, closeOk)
    /\ params' = ParamsForStats(params)
    /\ UNCHANGED <<v2vars, client, ext, now, api, offres, dateCollecte, markerAnalyse, run>>

\* "success" of the dict that execute_complete_pipeline returns: True on the
\* normal path whatever the stages returned, False from the except clause
PipelineSuccess(p) == p # "aborted"

\* backend/main.py: main(), main_force(), main_avec_limite() and
\* main_force_analyses() print the result, whatever its "success", inside
\* try / except Exception and return; the process exits with 1 only when an
\* exception escapes run_main() (escaped), and with 0 otherwise
MainExitCode(success, escaped) == IF escaped THEN 1 ELSE 0

\* exit code of the command-line run whose pipeline invocation has ended
ExitCode == MainExitCode(PipelineSuccess(pc), FALSE)

StageWith(closeOks) ==
    \/ StageCollectSkip
    \/ StageAnalyseSkip
    \/ StageAnalyseRun
    \/ StageStatsSkipWith(closeOks)
    \/ StageStatsRunWith(closeOks)

Stage == StageWith({TRUE})
StageClose == StageWith(BOOLEAN)

\* The pipeline over an upstream listing that changes freely, within one
\* staleness window.
Next ==
    \/ ApiChange
    \/ MainSkipped
    \/ MainInvoke
    \/ Invoke
    \/ InvokeAborted
    \/ StageCollectRun
    \/ Stage

Spec == Init /\ [][Next]_vars

\* The pipeline over the hours, complete fetches of a growing upstream listing.
\* complete collections only: no max_jobs limit and no failing page
NextFull ==
    \/ ApiChange
    \/ MainSkipped
    \/ MainInvoke
    \/ InvokeFull
    \/ InvokeAborted
    \/ StageCollectFull
    \/ Stage

SpecFull == Init /\ [][NextFull]_vars

NextTime ==
    \/ Tick
    \/ ApiPublish
    \/ MainSkipped
    \/ MainInvoke
    \/ InvokeFull
    \/ InvokeAbortedClose
    \/ StageCollectFull
    \/ StageClose

SpecTime == Init /\ [][NextTime]_vars

\* ------------------------------------- CollectJobsService (backend_v2/)
\* The collection is either the one with the unique index on source_id that
\* backend/database/connection.py creates, or one without; it may hold a
\* document without source_id.
InitV2 ==
    /\ now = 0
    /\ api = [i \in Ids |-> "none"]
    /\ offres = [i \in Ids |-> NoRow]
    /\ dateCollecte = NoDate
    /\ markerAnalyse = NoDate
    /\ markerStats = NoDate
    /\ pc = "idle"
    /\ params = NoParams
    /\ res = NoRes
    /\ run = NoRun
    /\ jobs \in {NoJobs, [NoJobs EXCEPT ![NoneId] = [act |-> 1, clo |-> 0]]}
    /\ uniqueIndex \in BOOLEAN
    /\ call = NoCall
    /\ client = NoClient
    /\ ext = NoExt
    /\ db = "closed"

CollectJobsCall ==
    /\ \E m \in 0..MaxId :
       \E failedPages \in SUBSET PagesOf(api, PageSize, m),
          fault \in {"none", "api", "read", "save"} :
         LET r == CollectJobs(api, jobs, m, failedPages, fault, uniqueIndex)
         IN  /\ \A i \in JobIds : r.jobs[i].act + r.jobs[i].clo <= MaxRows
             /\ jobs' = r.jobs
             /\ call' = [executed |-> TRUE, raised |-> r.raised,
                         fetched |-> r.fetched, existing |-> r.existing,
                         deactivated |-> r.deactivated, saved |-> r.saved,
                         before |-> jobs, fault |-> fault,
                         restricted |-> m # 0 /\ m < Cardinality(Available(api)),
                         partial |-> fault # "api" /\ failedPages # {},
                         streak |-> IF m = 0 /\ failedPages = {}
                                       /\ fault = "none" /\ ~ r.raised
                                    THEN Min(call.streak + 1, 2) ELSE 0]
    /\ UNCHANGED <<now, api, offres, dateCollecte, markerAnalyse, markerStats,
                   pc, params, res, run, uniqueIndex, client, ext, db>>

NextV2 ==
    \/ ApiChange
    \/ CollectJobsCall

SpecV2 == InitV2 /\ [][NextV2]_vars

\* ------------------------------ FranceTravailAPIClient (backend/clients/)
\* the cached token stops being accepted by the API
TokenExpire ==
    /\ client.token = "valid"
    /\ client' = [client EXCEPT !.token = "expired"]
    /\ UNCHANGED <<v2vars, ext, db, now, api, offres, dateCollecte, markerAnalyse,
                   markerStats, pc, params, res, run>>

\* collecter_offres_paginees is called: token, total, number of pages
CollecterBegin ==
    /\ client.phase # "paging"
    /\ \E max_offres \in {NoLimit} \cup (0..MaxId), authOk \in BOOLEAN,
          outcome \in {"ok", "error", "transport"} :
         client' = BeginCall(client, api, EffectivePageSize(PageSize),
                             max_offres, authOk, outcome)
    /\ UNCHANGED <<v2vars, ext, db, now, api, offres, dateCollecte, markerAnalyse,
                   markerStats, pc, params, res, run>>

\* the next page is requested
RequestPage ==
    /\ client.phase = "paging"
    /\ \E outcome \in {"ok", "error", "transport"} :
         client' = PageStep(client, api, EffectivePageSize(PageSize), outcome)
    /\ UNCHANGED <<v2vars, ext, db, now, api, offres, dateCollecte, markerAnalyse,
                   markerStats, pc, params, res, run>>

NextClient ==
    \/ ApiChange
    \/ TokenExpire
    \/ CollecterBegin
    \/ RequestPage

SpecClient == Init /\ [][NextClient]_vars

\* --------------------------- CompetenceProcessor over the offres collection
\* import of backend.data.competences: the referentiel is loaded once
ExtLoad ==
    /\ ~ ext.loaded
    /\ \E outcome \in {"ok", "missing", "malformed"} :
         ext' = [ext EXCEPT !.loaded = TRUE,
                            !.ref = ChargerCompetencesReferentiel(outcome)]
    /\ UNCHANGED <<v2vars, client, db, now, api, offres, dateCollecte, markerAnalyse,
                   markerStats, pc, params, res, run>>

\* the collector meets a new offer: analyser_texte on intitule + description,
\* the offer is dropped when nothing is detected and stored with traite=True
\* and its competences otherwise (collector lines 97-114)
ExtCollect ==
    /\ ext.loaded
    /\ \E i \in Ids, f \in Forms :
         /\ ext.rec[i].state = "absent"
         /\ ext' = [ext EXCEPT !.rec[i] =
                       IF AnalyserTexte(f, ext.ref) = {}
                       THEN [state |-> "filtered", form |-> f,
                             traite |-> FALSE, tags |-> {}]
                       ELSE [state |-> "stored", form |-> f,
                             traite |-> TRUE, tags |-> AnalyserTexte(f, ext.ref)]]
    /\ UNCHANGED <<v2vars, client, db, now, api, offres, dateCollecte, markerAnalyse,
                   markerStats, pc, params, res, run>>

\* analyze_jobs_competences(analyze_all=True, force_reanalyze)
ExtAnalyse ==
    /\ ext.loaded
    /\ \E force_reanalyze \in BOOLEAN, fault \in {"none", "detections", "update"} :
         LET e == AnalyserOffresParRecord(ext, force_reanalyze, fault)
         IN  /\ \A i \in Ids : e.det[i] <= MaxRows
             /\ ext' = e
    /\ UNCHANGED <<v2vars, client, db, now, api, offres, dateCollecte, markerAnalyse,
                   markerStats, pc, params, res, run>>

NextExtract ==
    \/ ExtLoad
    \/ ExtCollect
    \/ ExtAnalyse

SpecExtract == Init /\ [][NextExtract]_vars

TypeOK ==
    /\ now \in Time
    /\ api \in [Ids -> ApiKinds]
    /\ offres \in [Ids -> Rows]
    /\ dateCollecte \in Time \cup {NoDate}
    /\ markerAnalyse \in Time \cup {NoDate}
    /\ markerStats \in Time \cup {NoDate}
    /\ pc \in {"idle", "collect", "analyse", "stats", "done", "aborted"}
    /\ jobs \in [JobIds -> Rows]
    /\ uniqueIndex \in BOOLEAN
    /\ db \in {"closed", "open", "closeFailed"}
    /\ ext.det \in [Ids -> 0..MaxRows]
    /\ ext.ref \subseteq Competences

\* ============================================================= properties

\* C1: in an orchestrator invocation whose collection is restricted by a
\* max_jobs limit, the collect stage closes no stored record: every offer that
\* was active before the stage is still active after it.
C1_RestrictedCollectionClosesNothing ==
    (run.executed /\ params.max_jobs # 0)
        => \A i \in run.actifs : offres[i].act > 0

C4_PartialFetchClosesNothing ==
    (run.executed /\ run.partial)
        => \A i \in run.actifs : offres[i].act > 0

\* C5: an id that is stored but inactive is neither resurrected nor
\* re-created: when a fetch lists an id whose stored records are all inactive,
\* the records stored under that id are the same after the call.
C5_InactiveNeitherResurrectedNorRecreated ==
    call.executed
        => \A i \in call.fetched :
             (call.before[i].act = 0 /\ call.before[i].clo > 0)
                 => jobs[i] = call.before[i]

\* C6: after two complete collections in a row over the same upstream
\* listing, the second one has created nothing and no two stored records
\* share a source_id.
C6_SecondRunCreatesNothingNoDuplicates ==
    call.streak = 2
        => /\ call.saved = {}
           /\ \A i \in JobIds : jobs[i].act + jobs[i].clo <= 1

\* C7: in an invocation that skips the collection because a recent one
\* exists, the analysis and the statistics are still checked and run when
\* due: at the end of the invocation a later stage that did not run is not
\* due by its own marker.
C7_LaterStagesRunAfterSkippedCollect ==
    (pc = "done" /\ res["collection"].status = "skipped")
        => /\ res["analysis"].status \in {"none", "skipped"}
                => ~ CheckShouldAnalyze(markerAnalyse, now, FALSE)
           /\ res["statistics"].status \in {"none", "skipped"}
                => ~ CheckShouldGenerateStats(markerStats, now, FALSE)

C9_SuccessfulStageRecordsMarker ==
    /\ res["collection"].status = "ok" => dateCollecte = now
    /\ res["analysis"].status = "ok" => markerAnalyse = now
    /\ res["statistics"].status = "ok" => markerStats = now

\* C10: without force, a stage whose check reads a marker at most HoursLimit
\* hours old is skipped, a stage whose marker is older (25h) runs, and a
\* stage without marker runs.  Each stage is looked at when it has just been
\* decided.
C10_StalenessGate ==
    \A s \in Stages :
        LET forced == CASE s = "collection" -> params.force_collection
                        [] s = "analysis"   -> params.force_analysis
                        [] s = "statistics" -> params.force_stats
            after  == CASE s = "collection" -> "analyse"
                        [] s = "analysis"   -> "stats"
                        [] s = "statistics" -> "done"
            last == res[s].last
        IN  (pc = after /\ res[s].status # "none" /\ res[s].check = "ok"
                /\ ~ forced)
                => /\ (last # NoDate /\ now - last <= HoursLimit)
                        => res[s].status = "skipped"
                   /\ (last # NoDate /\ now - last > HoursLimit)
                        => res[s].status \in {"ok", "failed"}
                   /\ last = NoDate => res[s].status \in {"ok", "failed"}

\* one invocation without force that skips the collection made 12h ago and
\* runs the statistics last generated 25h ago
C10_Witness ==
    /\ pc = "done"
    /\ ~ params.force_collection
    /\ ~ params.force_stats
    /\ res["collection"].status = "skipped"
    /\ now - res["collection"].last = 12
    /\ res["statistics"].status = "ok"
    /\ res["statistics"].check = "ok"
    /\ res["statistics"].last # NoDate
    /\ now - res["statistics"].last = 25

C12_StagesInOrder ==
    [][ /\ (res["analysis"].status = "none" /\ res'["analysis"].status # "none")
            => /\ res["collection"].status # "none"
               /\ res["statistics"].status = "none"
               /\ offres' = offres
               /\ dateCollecte' = dateCollecte
        /\ (res["statistics"].status = "none" /\ res'["statistics"].status # "none")
            => /\ res["collection"].status # "none"
               /\ res["analysis"].status # "none"
               /\ offres' = offres
               /\ dateCollecte' = dateCollecte
        /\ offres' # offres
            => /\ res["analysis"].status = "none"
               /\ res["statistics"].status = "none"
               /\ res'["analysis"].status = "none"
      ]_vars

\* an invocation in which the three stages ran, the collection having both
\* closed and inserted offers
C12_Witness ==
    /\ pc = "done"
    /\ \A s \in Stages : res[s].status = "ok"
    /\ \E i \in Ids : offres[i].act > 0
    /\ \E i \in Ids : offres[i].act = 0 /\ offres[i].clo > 0

\* C13: a request answered 401 makes the client drop the cached token,
\* authenticate again and repeat the request once, so that a 401 stands as the
\* answer to a request only when the retry was rejected too, and then the
\* collection call has failed: whenever the total request or a page request
\* of a call ended on a 401, the rejected token is no longer cached and the
\* call raised.
C13_UnauthorizedIsRetriedThenFails ==
    (client.probe = "unauthorized"
        \/ \E p \in PageIndex : client.answers[p] = "unauthorized")
        => /\ client.token # "expired"
           /\ client.phase = "raised"

\* C14: a transport error on one page does not end the collection: once the
\* call is over, every page of the call has been requested and the collector
\* holds the offers of all the pages that were answered with success.
C14_TransportErrorKeepsOtherPages ==
    (client.phase \in {"returned", "raised"}
        /\ \E p \in PageIndex : client.answers[p] = "transport")
        => /\ \A q \in 0..(NbPages(client.tac, EffectivePageSize(PageSize)) - 1) :
                  client.answers[q] # "none"
           /\ RawJobs(client) =
                  SucceededPages(client, api, EffectivePageSize(PageSize))

\* C15: a page answered with a non-success status is passed over and the
\* loop goes on: a call that returns has requested every page and returns
\* exactly the offers of the pages that were answered 200 or 206.
C15_ErrorPageIsSkipped ==
    client.phase = "returned"
        => /\ \A q \in 0..(NbPages(client.tac, EffectivePageSize(PageSize)) - 1) :
                  client.answers[q] \in {"ok", "error", "unauthorized"}
           /\ client.acc =
                  SucceededPages(client, api, EffectivePageSize(PageSize))

\* the first page is answered with an error status, the second with success,
\* and the call returns the offers of the second page
C15_Witness ==
    /\ client.phase = "returned"
    /\ client.answers[0] = "error"
    /\ client.answers[1] = "ok"
    /\ client.acc # {}

\* C16: an authentication failure ends the run: when the client call of the
\* collect stage raised (fault "api": _get_token raising ValueError is one
\* such call), the collection is reported as failed and the invocation
\* executes neither the analysis nor the statistics.
C16_AuthFailureAbortsRun ==
    [][ (pc = "analyse" /\ run.executed /\ run.fault = "api")
            => /\ res["collection"].status = "failed"
               /\ res'["analysis"].status \notin {"ok", "failed"}
               /\ res'["statistics"].status \notin {"ok", "failed"}
      ]_vars

\* C17: the report that ends an orchestrator invocation states, for each of
\* the three stages, whether it ran with success, was skipped or failed.
C17_ReportStatesEveryStage ==
    (pc \in {"done", "aborted"} /\ params.entry = "direct")
        => \A s \in Stages : res[s].status \in {"ok", "skipped", "failed"}

\* C18: a command-line run in which a stage failed ends with a non-zero
\* exit code.
C18_FailedStageGivesNonZeroExit ==
    (pc \in {"done", "aborted"} /\ \E s \in Stages : res[s].status = "failed")
        => ExitCode # 0

\* C19: a store failure is fatal for the stage it happens in.  For the collect
\* stage: when a store operation of the reconciliation raised (fault "store",
\* over a non-empty fetch) or the batch insertion of the new offers raised
\* (fault "insert", with at least one offer to insert), the collection is
\* reported as failed and its marker is the one it had before the stage.
C19_StoreFailureFailsStage ==
    (pc = "analyse" /\ run.executed
        /\ \/ run.fault = "store" /\ run.fetched # {}
           \/ run.fault = "insert"
                /\ NouvellesOffres(api, run.existants, run.fetched) # {})
        => /\ res["collection"].status = "failed"
           /\ dateCollecte = res["collection"].last

\* C20: in a call with max_offres supplied (any value >= 0), the accumulated
\* result never holds more than max_offres records, and a page is requested
\* only while the result holds fewer than max_offres records.
C20_MaxRecordsBoundsResult ==
    client.max # NoLimit
        => /\ Cardinality(client.acc) <= client.max
           /\ client.phase = "paging" => Cardinality(client.acc) < client.max

\* C21: the pages are requested one after the other, each after the previous
\* answer has been handled and after one sleep of the inter-request interval:
\* whenever a page request comes next, the pages requested so far are exactly
\* the pages before it, each has its answer, and as many sleeps as page
\* requests have been made; over a whole call at most the last page request
\* is not followed by a sleep.
C21_SequentialAndRateLimited ==
    /\ client.sleeps >= client.page - 1
    /\ \A q \in PageIndex : q < client.page <=> client.answers[q] # "none"
    /\ client.phase = "paging" => client.sleeps = client.page

\* the second page has been requested, after a first page answered with an
\* error status and one sleep
C21_Witness ==
    /\ client.page = 2
    /\ client.answers[0] = "error"
    /\ client.answers[1] = "ok"
    /\ client.sleeps >= 1

\* C22: after an analysis that completed successfully, every offer it
\* selected is marked treated, its stored competences are the labels the
\* analysis matched for it (none included), and a non-forced analysis would
\* not select it again.
C22_SelectedOffersAreMarkedProcessed ==
    ext.last.status = "ok"
        => \A i \in ext.last.selected :
              /\ ext.rec[i].traite
              /\ ext.rec[i].tags = AnalyserOffre(ext.rec[i].form, ext.ref)
              /\ i \notin OffresSelectionnees(ext.rec, FALSE)

\* C23: the collection of detections never holds two rows for the same
\* (offer, competence) pair.
C23_OneDetectionPerPair ==
    \A i \in Ids : ext.det[i] <= 1

\* C25: a text with U+00A0 between "React" and "Native" and the same text
\* with an ASCII space get the same match result at both entry points: two
\* offers that went through the collector are both kept or both dropped, and
\* two offers analysed by the same successful batch get the same competences.
C25_NbspMatchesLikeSpace ==
    \A i, j \in Ids :
        (ext.rec[i].form = "ascii" /\ ext.rec[j].form = "nbsp")
            => /\ (ext.rec[i].state # "absent" /\ ext.rec[j].state # "absent")
                    => ext.rec[i].state = ext.rec[j].state
               /\ (ext.last.status = "ok" /\ {i, j} \subseteq ext.last.selected)
                    => ext.rec[i].tags = ext.rec[j].tags

\* C26: with a referentiel that could not be loaded (it is empty) no stage
\* starts: no offer goes through the collector and no analysis runs.
C26_NoStageWithEmptyLibrary ==
    (ext.loaded /\ ext.ref = {})
        => /\ ext.last.status = "none"
           /\ \A i \in Ids : ext.rec[i].state = "absent"

\* C24: the collect stage leaves every fetched offer that was already stored
\* and active exactly as it was: its rows are the same after the stage.
C24_KnownActiveFetchedIsUntouched ==
    [][(pc = "collect" /\ pc' = "analyse")
          => \A i \in run'.fetched :
                offres[i].act > 0 => offres'[i] = offres[i]]_vars

\* a completed collection that fetched an offer already stored and active,
\* and stored another one that was new
C24_Witness ==
    /\ pc = "analyse"
    /\ run.executed
    /\ run.fault = "none"
    /\ run.fetched \cap run.actifs # {}
    /\ \E j \in run.fetched \ run.existants : offres[j].act > 0

\* C27: a collection whose fetch yields no record closes nothing: the ids
\* with an active record are the same after the call as before it.
C27_EmptyFetchClosesNothing ==
    (call.executed /\ call.fetched = {})
        => {i \in JobIds : jobs[i].act > 0}
               = {i \in JobIds : call.before[i].act > 0}

\* C28: the connection is open only while an invocation is running: every
\* invocation that has returned, with or without success, has gone through
\* close_database, and it has returned its own result even when the closing
\* failed.
C28_ConnectionClosedOnEveryReturn ==
    /\ pc \in {"collect", "analyse", "stats"} <=> db = "open"
    /\ pc # "crashed"

\* an invocation returned its report although closing the connection failed
C28_Witness ==
    /\ pc = "done"
    /\ db = "closeFailed"
    /\ res["statistics"].status = "ok"

\* C29: a stage whose staleness check failed to read the last execution is
\* run, never skipped, and the invocation is not aborted by that failure.
C29_FailedCheckRunsTheStage ==
    \A s \in Stages :
        res[s].check = "error"
            => /\ res[s].status \in {"ok", "failed"}
               /\ pc # "aborted"

\* the collection ran on a failed check although the last collection is
\* recent and nothing was forced
C29_Witness ==
    /\ pc = "analyse"
    /\ res["collection"].check = "error"
    /\ res["collection"].status = "ok"
    /\ ~ params.force_collection
    /\ res["collection"].last # NoDate
    /\ ~ ShouldExecute(res["collection"].last, now)

\* C30: with T >= 1 offers upstream, the ranges requested so far are
\* contiguous from index 0, pairwise disjoint, at most min(P, 150) wide and
\* inside 0 .. min(T, maxRecords) - 1; a call that returned after all its
\* pages has covered exactly these indices; and never more than
\* ceil(min(T, maxRecords) / min(P, 150)) pages are requested.
C30_PageRangesTileTheBound ==
    LET T     == Cardinality(Available(api))
        ps    == Min(PageSize, ApiPageLimit)
        bound == IF client.max = NoLimit THEN T ELSE Min(T, client.max)
        first(q) == PageStart(q, ps)
        last(q)  == PageEnd(q, ps, client.tac)
    IN  (T >= 1 /\ client.phase \in {"paging", "returned"})
            => /\ \A q \in PageIndex :
                     q < client.page
                         => /\ first(q) = IF q = 0 THEN 0 ELSE last(q - 1) + 1
                            /\ first(q) <= last(q)
                            /\ last(q) - first(q) + 1 <= ps
                            /\ last(q) <= bound - 1
               /\ client.page * ps < bound + ps
               /\ (client.phase = "returned" /\ client.page > 0)
                     => last(client.page - 1) = bound - 1

====
